---- MODULE Spec2Model ----
(***************************************************************************)
(* Model of the Salice hinge boring calculator (src/src/hinges.py and      *)
(* src/src/models.py).                                                     *)
(*                                                                         *)
(* Numbers.  Every length the code holds as a float with one decimal       *)
(* (thicknesses, K, A, L, C, c_offset) is held here in tenths of a         *)
(* millimetre (18.0mm = 180), so the arithmetic of the catalogue values is *)
(* exact.  Door heights and curve thresholds are whole millimetres,        *)
(* opening angles whole degrees, table keys whole millimetres (the code's  *)
(* int keys).  A range midpoint is held doubled (see range_mid).           *)
(*                                                                         *)
(* Optional values.  Python's None is the empty tuple and a present value  *)
(* v is the one-element tuple <<v>>.                                       *)
(*                                                                         *)
(* Strings.  A registry key is a tuple of one-character strings, so that   *)
(* lower() and strip() are computed character by character.                *)
(***************************************************************************)
EXTENDS Integers, Sequences, FiniteSets, TLC

VARIABLES
    registry,   \* HINGE_SERIES_REGISTRY: insertion-ordered dict, a tuple of [key, cls]
    pc,         \* position of the import of src/src/hinges.py
    nextId,     \* number of series instances constructed so far (identity of the next one)
    ret,        \* outcome of the last registry operation
    series,     \* the series object handed to calculate_boring / the series methods
    door,       \* the DoorSpec object handed to calculate_boring (mutable)
    result,     \* outcome of the last calculate_boring call on (series, door)
    prev,       \* outcome of the calculate_boring call before that
    runs,       \* number of calculate_boring calls made on (series, door)
    fnret       \* outcome of the last call of a series or table method

vars == <<registry, pc, nextId, ret, series, door, result, prev, runs, fnret>>

None == <<>>
Some(v) == <<v>>
IsNone(o) == o = <<>>
Val(o) == o[1]

----------------------------------------------------------------------------
(* Bounds of the model *)

MaxInstances == 5
MaxRegistry == 3
MaxRuns == 2

----------------------------------------------------------------------------
(* str.lower() and str.strip() *)

UpperLetters ==
    <<"A","B","C","D","E","F","G","H","I","J","K","L","M",
      "N","O","P","Q","R","S","T","U","V","W","X","Y","Z">>

LowerLetters ==
    <<"a","b","c","d","e","f","g","h","i","j","k","l","m",
      "n","o","p","q","r","s","t","u","v","w","x","y","z">>

Whitespace == {" ", "\t", "\n", "\r"}

LowerChar(c) ==
    IF \E i \in DOMAIN UpperLetters : UpperLetters[i] = c
    THEN LowerLetters[CHOOSE i \in DOMAIN UpperLetters : UpperLetters[i] = c]
    ELSE c

Lower(s) == [i \in DOMAIN s |-> LowerChar(s[i])]

RECURSIVE LStrip(_)
LStrip(s) ==
    IF s # <<>> /\ Head(s) \in Whitespace THEN LStrip(Tail(s)) ELSE s

RECURSIVE RStrip(_)
RStrip(s) ==
    IF s # <<>> /\ s[Len(s)] \in Whitespace
    THEN RStrip(SubSeq(s, 1, Len(s) - 1))
    ELSE s

Strip(s) == RStrip(LStrip(s))

\* key = key.lower().strip()
NormalizeKey(key) == Strip(Lower(key))

----------------------------------------------------------------------------
(* dict operations on the insertion-ordered registry *)

DictKeys(d) == [i \in DOMAIN d |-> d[i].key]

DictHas(d, k) == \E i \in DOMAIN d : d[i].key = k

DictGet(d, k) == d[CHOOSE i \in DOMAIN d : d[i].key = k].cls

\* d[k] = c : an existing key keeps its position, a new key is appended
DictSet(d, k, c) ==
    IF DictHas(d, k)
    THEN [i \in DOMAIN d |-> IF d[i].key = k THEN [key |-> k, cls |-> c] ELSE d[i]]
    ELSE Append(d, [key |-> k, cls |-> c])

----------------------------------------------------------------------------
(* BoringTables (src/src/models.py) *)

\* a dict row {k0: vals[1], k0+1: vals[2], ...}
Row(k0, vals) == [k \in k0..(k0 + Len(vals) - 1) |-> vals[k - k0 + 1]]

\* a dict {t0: rows[1], t0+1: rows[2], ...} of such rows, all starting at k0
Table(t0, k0, rows) ==
    [t \in t0..(t0 + Len(rows) - 1) |-> Row(k0, rows[t - t0 + 1])]

EmptyDict == [x \in {} |-> 0]

\* BoringTables(a_table, l_table, c_offset)
BoringTables(a, l, c) == [a_table |-> a, l_table |-> l, c_offset |-> c]

\* self.a_table.get(thickness_mm, {}).get(k_mm)
get_a(tables, thickness_mm, k_mm) ==
    IF thickness_mm \in DOMAIN tables.a_table
       /\ k_mm \in DOMAIN tables.a_table[thickness_mm]
    THEN Some(tables.a_table[thickness_mm][k_mm])
    ELSE None

\* self.l_table.get(thickness_mm, {}).get(k_mm)
get_l(tables, thickness_mm, k_mm) ==
    IF thickness_mm \in DOMAIN tables.l_table
       /\ k_mm \in DOMAIN tables.l_table[thickness_mm]
    THEN Some(tables.l_table[thickness_mm][k_mm])
    ELSE None

get_c_NoK(tables, thickness_mm, k_mm) ==
    LET a == get_a(tables, thickness_mm, k_mm)
    IN  IF IsNone(a) THEN None ELSE Some(tables.c_offset + Val(a))

\* c_offset + k_mm + a, k_mm being whole millimetres and the rest tenths
get_c(tables, thickness_mm, k_mm) ==
    LET a == get_a(tables, thickness_mm, k_mm)
    IN  IF IsNone(a) THEN None ELSE Some(tables.c_offset + 10 * k_mm + Val(a))

----------------------------------------------------------------------------
(* The two catalogue series (src/src/hinges.py) *)

Tables100 ==
    BoringTables(
        Table(15, 3, << <<10,  9,  9,  9>>,
                        <<10, 10, 10, 10>>,
                        <<12, 12, 11, 11>>,
                        <<14, 13, 12, 12>>,
                        <<16, 15, 15, 14>>,
                        <<19, 18, 18, 17>> >>),
        Table(15, 3, << << 0,  4, 10, 16>>,
                        << 0,  6, 10, 18>>,
                        << 0,  7, 12, 20>>,
                        << 0,  9, 18, 21>>,
                        << 1, 11, 20, 23>>,
                        << 3, 12, 20, 25>> >>),
        205)

L200Row == <<0, 0, 0, 0, 0, 3, 13>>

Tables200_94 ==
    BoringTables(
        Table(19, 3, << << 1,  1,  1,  1,  1,  1,  1>>,
                        << 2,  2,  2,  2,  2,  2,  2>>,
                        << 3,  3,  3,  3,  3,  3,  3>>,
                        << 4,  4,  4,  4,  4,  4,  4>>,
                        << 5,  5,  5,  5,  5,  5,  5>>,
                        << 7,  7,  7,  6,  6,  6,  6>>,
                        << 8,  8,  8,  8,  8,  8,  8>>,
                        <<10, 10, 10, 10, 10,  9,  9>>,
                        <<16, 12, 12, 12, 11, 11, 11>>,
                        <<26, 19, 14, 14, 13, 13, 13>>,
                        <<35, 28, 22, 17, 16, 16, 15>>,
                        <<45, 38, 31, 26, 21, 18, 18>>,
                        <<54, 47, 41, 35, 30, 25, 21>>,
                        <<64, 57, 50, 44, 38, 33, 29>>,
                        <<74, 66, 59, 53, 47, 42, 37>>,
                        <<83, 76, 69, 62, 56, 51, 46>>,
                        <<93, 86, 78, 72, 65, 60, 54>> >>),
        Table(19, 3, [i \in 1..17 |-> L200Row]),
        230)

\* [(1000.0, 2), (1500.0, 3), (2200.0, 4), (2800.0, 5)]
DefaultCurve == << <<1000, 2>>, <<1500, 3>>, <<2200, 4>>, <<2800, 5>> >>

\* HingeSeriesBase.__init__ (the dataclass fields)
HingeSeriesBase(code, display_name, angle, min_t, max_t, min_k, max_k, cup_d, cup_depth, tables, curve) ==
    [ code |-> code,
      display_name |-> display_name,
      opening_angle_deg |-> angle,
      min_door_thickness_mm |-> min_t,
      max_door_thickness_mm |-> max_t,
      min_k_mm |-> min_k,
      max_k_mm |-> max_k,
      cup_diameter_mm |-> cup_d,
      cup_depth_mm |-> cup_depth,
      tables |-> tables,
      hinge_count_by_height |-> curve ]

\* `hinge_count_by_height or [...]`: None and [] both give the default curve
CurveOrDefault(curve) ==
    IF IsNone(curve) \/ Val(curve) = <<>> THEN Some(DefaultCurve) ELSE curve

SaliceSilentia100Series(tables, hinge_count_by_height) ==
    HingeSeriesBase(
        "salice_silentia_100",
        "Salice Silentia+ 100 series 105 degree opening angle",
        105, 150, Some(200), 30, 60, 350, 120,
        IF IsNone(tables) THEN Tables100 ELSE Val(tables),
        CurveOrDefault(hinge_count_by_height))

SaliceSilentia200_94Series(tables, hinge_count_by_height) ==
    HingeSeriesBase(
        "salice_silentia_200_94",
        "Salice Silentia+ 200 series 94 degree opening angle",
        94, 190, Some(350), 30, 90, 350, 155,
        IF IsNone(tables) THEN Tables200_94 ELSE Val(tables),
        CurveOrDefault(hinge_count_by_height))

Classes == {"SaliceSilentia100Series", "SaliceSilentia200_94Series"}

\* cls(**kwargs)
Construct(cls, kwargs) ==
    IF cls = "SaliceSilentia100Series"
    THEN SaliceSilentia100Series(kwargs.tables, kwargs.hinge_count_by_height)
    ELSE SaliceSilentia200_94Series(kwargs.tables, kwargs.hinge_count_by_height)

NoKwargs == [tables |-> None, hinge_count_by_height |-> None]

----------------------------------------------------------------------------
(* Methods of HingeSeriesBase *)

supports_thickness(s, thickness_mm) ==
    /\ thickness_mm >= s.min_door_thickness_mm
    /\ (IsNone(s.max_door_thickness_mm)
        \/ thickness_mm <= Val(s.max_door_thickness_mm))

Min2(a, b) == IF b < a THEN b ELSE a
Max2(a, b) == IF b > a THEN b ELSE a

clamp_k_UpperOnly(s, k_mm) == Min2(s.max_k_mm, k_mm)

\* max(self.min_k_mm, min(self.max_k_mm, k_mm))
clamp_k(s, k_mm) == Max2(s.min_k_mm, Min2(s.max_k_mm, k_mm))

default_k(s) == s.min_k_mm

\* the for loop of recommend_hinge_count over curve[i..]
RECURSIVE ScanCurve(_, _, _)
ScanCurve(curve, i, door_height_mm) ==
    IF i > Len(curve) THEN curve[Len(curve)][2]
    ELSE IF door_height_mm <= curve[i][1] THEN curve[i][2]
    ELSE ScanCurve(curve, i + 1, door_height_mm)

recommend_hinge_count_Strict(s, door_height_mm, door_weight_kg) ==
    IF IsNone(s.hinge_count_by_height) \/ Val(s.hinge_count_by_height) = <<>>
    THEN [raised |-> None, value |-> None]
    ELSE IF IsNone(door_height_mm)
    THEN [raised |-> Some("TypeError"), value |-> None]
    ELSE LET curve == Val(s.hinge_count_by_height)
             below == {i \in DOMAIN curve : Val(door_height_mm) < curve[i][1]}
         IN  [raised |-> None,
              value |-> Some(IF below = {} THEN curve[Len(curve)][2]
                             ELSE curve[CHOOSE i \in below :
                                            \A j \in below : i <= j][2])]

\* [raised, value]: the exception raised, if any, else the returned Optional[int]
recommend_hinge_count(s, door_height_mm, door_weight_kg) ==
    IF IsNone(s.hinge_count_by_height) \/ Val(s.hinge_count_by_height) = <<>>
    THEN [raised |-> None, value |-> None]
    ELSE IF IsNone(door_height_mm)
    THEN [raised |-> Some("TypeError"), value |-> None]   \* None <= float
    ELSE [raised |-> None,
          value |-> Some(ScanCurve(Val(s.hinge_count_by_height), 1,
                                   Val(door_height_mm)))]

----------------------------------------------------------------------------
(* DoorSpec, BoringResult and calculate_boring (src/src/models.py) *)

DoorSpec(thickness_mm, height_mm, weight_kg, desired_k_mm) ==
    [ thickness_mm |-> thickness_mm,
      height_mm |-> height_mm,
      weight_kg |-> weight_kg,
      desired_k_mm |-> desired_k_mm ]

\* a warning string: which f-string it is, the numbers and the text formatted into it
Warning(kind, nums, text) == [kind |-> kind, nums |-> nums, text |-> text]

\* int(round(x)) of a value in tenths: Python 3 rounds halves to even
RoundToInt(x) ==
    LET q == x \div 10
        r == x % 10
    IN  IF r < 5 THEN q
        ELSE IF r > 5 THEN q + 1
        ELSE IF q % 2 = 0 THEN q ELSE q + 1

\* lines 80-84
ThicknessWarnings(s, d) ==
    IF ~supports_thickness(s, d.thickness_mm)
    THEN << Warning("thickness_outside_range", <<d.thickness_mm>>, s.display_name) >>
    ELSE <<>>

\* lines 86-98: the K used and the warnings of this step
ResolveK(s, d) ==
    IF IsNone(d.desired_k_mm)
    THEN [ k_mm |-> default_k(s),
           warnings |-> << Warning("default_k_used", <<default_k(s)>>, "") >> ]
    ELSE LET k == clamp_k(s, Val(d.desired_k_mm))
         IN  [ k_mm |-> k,
               warnings |->
                   IF k # Val(d.desired_k_mm)
                   THEN << Warning("k_clamped",
                                   <<Val(d.desired_k_mm), s.min_k_mm, s.max_k_mm, k>>,
                                   "") >>
                   ELSE <<>> ]

LookupWarnings_OnlyA(a_mm, l_mm, thickness_int, k_int) ==
    IF IsNone(a_mm)
    THEN << Warning("no_table_entry", <<thickness_int, k_int>>, "") >>
    ELSE <<>>

\* lines 108-112
LookupWarnings(a_mm, l_mm, thickness_int, k_int) ==
    IF IsNone(a_mm) \/ IsNone(l_mm)
    THEN << Warning("no_table_entry", <<thickness_int, k_int>>, "") >>
    ELSE <<>>

\* min(h for (h, _) in curve) over a non-empty list
MinThreshold(curve) ==
    LET hs == {curve[i][1] : i \in DOMAIN curve}
    IN  CHOOSE h \in hs : \A g \in hs : h <= g

\* lines 114-115: [raised, door]; the assignment does not happen when min() raises
BackfillHeight(s, d) ==
    IF ~IsNone(d.height_mm) THEN [raised |-> None, door |-> d]
    ELSE IF IsNone(s.hinge_count_by_height)
    THEN [raised |-> Some("TypeError"), door |-> d]     \* iterating None
    ELSE IF Val(s.hinge_count_by_height) = <<>>
    THEN [raised |-> Some("ValueError"), door |-> d]    \* min() of an empty sequence
    ELSE [raised |-> None,
          door |-> [d EXCEPT !.height_mm =
                        Some(MinThreshold(Val(s.hinge_count_by_height)))]]

BoringResult(series_code, thickness_mm, height_mm, k_mm, a_mm, l_mm, c_mm, recommended_hinge_count, warnings) ==
    [ series_code |-> series_code,
      thickness_mm |-> thickness_mm,
      height_mm |-> height_mm,
      k_mm |-> k_mm,
      a_mm |-> a_mm,
      l_mm |-> l_mm,
      c_mm |-> c_mm,
      recommended_hinge_count |-> recommended_hinge_count,
      warnings |-> warnings ]

\* the height the result echoes: door.height_mm as it is after the back-fill
ResultHeight_OnEntry(d0, d1) == d0.height_mm

ResultHeight(d0, d1) == d1.height_mm

\* calculate_boring(series, door): [raised, value, door], where raised is the
\* exception that escapes (if any), value the BoringResult returned (if any) and
\* door the caller's DoorSpec object as the call leaves it
calculate_boring(s, d) ==
    LET w1 == ThicknessWarnings(s, d)
        rk == ResolveK(s, d)
        k_mm == rk.k_mm
        thickness_int == RoundToInt(d.thickness_mm)
        k_int == RoundToInt(k_mm)
        a_mm == get_a(s.tables, thickness_int, k_int)
        l_mm == get_l(s.tables, thickness_int, k_int)
        c_mm == get_c(s.tables, thickness_int, k_int)
        w3 == LookupWarnings(a_mm, l_mm, thickness_int, k_int)
        bf == BackfillHeight(s, d)
        hc == recommend_hinge_count(s, bf.door.height_mm, bf.door.weight_kg)
    IN  IF ~IsNone(bf.raised)
        THEN [raised |-> bf.raised, value |-> None, door |-> bf.door]
        ELSE IF ~IsNone(hc.raised)
        THEN [raised |-> hc.raised, value |-> None, door |-> bf.door]
        ELSE [raised |-> None,
              value |-> Some(BoringResult(s.code, d.thickness_mm,
                                          ResultHeight(d, bf.door), k_mm,
                                          a_mm, l_mm, c_mm, hc.value,
                                          w1 \o rk.warnings \o w3)),
              door |-> bf.door]

----------------------------------------------------------------------------
(* The registry operations and the automatic selection (src/src/hinges.py) *)

register_hinge_series_KeepFirst(reg, key, cls) ==
    IF DictHas(reg, NormalizeKey(key)) THEN reg ELSE DictSet(reg, NormalizeKey(key), cls)

\* register_hinge_series(key, cls): the registry after the call
register_hinge_series(reg, key, cls) == DictSet(reg, NormalizeKey(key), cls)

Error(type, msg, detail) == [type |-> type, msg |-> msg, detail |-> detail]

\* a series object and its identity
Instance(id, obj) == [id |-> id, obj |-> obj]

get_hinge_series_RawKey(reg, key, kwargs, id) ==
    IF ~DictHas(reg, key)
    THEN [ raised |-> Some(Error("ValueError", "unknown_hinge_series",
                                 [key |-> key, available |-> DictKeys(reg)])),
           value |-> None, constructed |-> 0 ]
    ELSE [ raised |-> None,
           value |-> Some(Instance(id, Construct(DictGet(reg, key), kwargs))),
           constructed |-> 1 ]

\* get_hinge_series(key, **kwargs) with `id` the identity of the next object
\* constructed: [raised, value, constructed]
get_hinge_series(reg, key, kwargs, id) ==
    LET k == NormalizeKey(key)
    IN  IF ~DictHas(reg, k)
        THEN [ raised |-> Some(Error("ValueError", "unknown_hinge_series",
                                     [key |-> k, available |-> DictKeys(reg)])),
               value |-> None, constructed |-> 0 ]
        ELSE [ raised |-> None,
               value |-> Some(Instance(id, Construct(DictGet(reg, k), kwargs))),
               constructed |-> 1 ]

\* _range_mid(s), doubled: 2 * min, or min + max (the code halves the sum)
range_mid(s) ==
    IF IsNone(s.max_door_thickness_mm)
    THEN 2 * s.min_door_thickness_mm
    ELSE s.min_door_thickness_mm + Val(s.max_door_thickness_mm)

Abs(x) == IF x < 0 THEN -x ELSE x

\* the key of min(): abs(_range_mid(s) - thickness_mm), doubled
Distance(s, thickness_mm) == Abs(range_mid(s) - 2 * thickness_mm)

\* lines 288-292: the series passes the filters
IsCandidate(s, thickness_mm, required_opening_angle_deg) ==
    /\ supports_thickness(s, thickness_mm)
    /\ (IsNone(required_opening_angle_deg)
        \/ ~(s.opening_angle_deg < Val(required_opening_angle_deg)))

\* lines 284-293: one instance per registry entry, in registry order, filtered
RECURSIVE Candidates(_, _, _, _, _)
Candidates(reg, i, thickness_mm, angle, id) ==
    IF i > Len(reg) THEN <<>>
    ELSE LET obj == Construct(reg[i].cls, NoKwargs)
             rest == Candidates(reg, i + 1, thickness_mm, angle, id + 1)
         IN  IF IsCandidate(obj, thickness_mm, angle)
             THEN <<Instance(id, obj)>> \o rest
             ELSE rest

\* min(candidates, key=...): the first candidate of least distance
PickBest(cands, thickness_mm) ==
    cands[CHOOSE i \in DOMAIN cands :
            /\ \A j \in DOMAIN cands :
                 Distance(cands[i].obj, thickness_mm)
                    <= Distance(cands[j].obj, thickness_mm)
            /\ \A j \in 1..(i - 1) :
                 Distance(cands[j].obj, thickness_mm)
                    > Distance(cands[i].obj, thickness_mm)]

select_hinge_series_NoAngleFilter(reg, thickness_mm, angle, id) ==
    IF reg = <<>>
    THEN [ raised |-> Some(Error("ValueError", "no_hinge_series_registered", <<>>)),
           value |-> None, constructed |-> 0 ]
    ELSE LET cands == Candidates(reg, 1, thickness_mm, None, id)
         IN  IF cands = <<>>
             THEN [ raised |-> Some(Error("ValueError", "no_series_supports",
                                          [thickness_mm |-> thickness_mm,
                                           angle |-> angle])),
                    value |-> None, constructed |-> Len(reg) ]
             ELSE [ raised |-> None,
                    value |-> Some(PickBest(cands, thickness_mm)),
                    constructed |-> Len(reg) ]

\* select_hinge_series_for_thickness(thickness_mm, required_opening_angle_deg)
select_hinge_series_for_thickness(reg, thickness_mm, angle, id) ==
    IF reg = <<>>
    THEN [ raised |-> Some(Error("ValueError", "no_hinge_series_registered", <<>>)),
           value |-> None, constructed |-> 0 ]
    ELSE LET cands == Candidates(reg, 1, thickness_mm, angle, id)
         IN  IF cands = <<>>
             THEN [ raised |-> Some(Error("ValueError", "no_series_supports",
                                          [thickness_mm |-> thickness_mm,
                                           angle |-> angle])),
                    value |-> None, constructed |-> Len(reg) ]
             ELSE [ raised |-> None,
                    value |-> Some(PickBest(cands, thickness_mm)),
                    constructed |-> Len(reg) ]

----------------------------------------------------------------------------
(* Inputs *)

Key100 == <<"1", "0", "0">>
Key200_94 == <<"2", "0", "0", "-", "9", "4">>
KeyCanonical100 == <<"s", "a", "l", "i", "c", "e", "_", "s", "i", "l", "e", "n", "t", "i", "a", "_", "1", "0", "0">>
KeyCanonical200_94 == <<"s", "a", "l", "i", "c", "e", "_", "s", "i", "l", "e", "n", "t", "i", "a", "_", "2", "0", "0", "_", "9", "4">>

\* keys callers pass to get_hinge_series
GetKeys ==
    { Key100, Key200_94, KeyCanonical100, KeyCanonical200_94,
      <<" ", " ", "1", "0", "0", "\t">>,
      <<" ", "S", "A", "L", "I", "C", "E", "_", "S", "I", "L", "E", "N", "T", "I", "A", "_", "2", "0", "0", "_", "9", "4", "\n">>,
      <<"S", "a", "l", "i", "c", "e", "_", "1", "0", "0">>,
      <<"1", " ", "0", "0">>,
      <<>> }

\* keys callers pass to register_hinge_series after the import
RegisterKeys == { <<" ", "1", "0", "0", " ">>, <<"S", "a", "l", "i", "c", "e", "_", "1", "0", "0", " ">> }

\* one row of A without L, one row of L without A, and a full cell
CustomTables ==
    BoringTables(18 :> (3 :> 14 @@ 4 :> 13), 18 :> (4 :> 9 @@ 5 :> 18), 100)

CustomCurve == << <<800, 1>>, <<1000, 2>>, <<2000, 3>> >>

KwargsInputs ==
    { NoKwargs,
      [tables |-> Some(CustomTables), hinge_count_by_height |-> None],
      [tables |-> None, hinge_count_by_height |-> Some(CustomCurve)],
      [tables |-> Some(BoringTables(EmptyDict, EmptyDict, 0)),
       hinge_count_by_height |-> Some(<<>>)] }

\* thicknesses in tenths of a millimetre
ThicknessInputs == {139, 140, 149, 150, 175, 180, 185, 190, 195, 200, 201, 350, 351}

\* thicknesses passed to the selection, tenths of a millimetre
SelectThicknessInputs == {149, 150, 180, 190, 200, 201, 350, 351}

AngleInputs == {None, Some(94), Some(95), Some(105), Some(110)}

\* series built directly from the base dataclass
GenericNoCurve ==
    HingeSeriesBase("generic", "Generic series", 110, 160, None, 30, 60,
                    350, 120, CustomTables, None)

GenericEmptyCurve ==
    HingeSeriesBase("generic_empty", "Generic series, empty curve", 110, 160,
                    Some(220), 30, 60, 350, 120, CustomTables, Some(<<>>))

GenericWithCurve ==
    HingeSeriesBase("generic_curve", "Generic series, own curve", 110, 160, None,
                    40, 40, 350, 120, CustomTables, Some(CustomCurve))

SeriesInputs ==
    { Construct(cls, kw) : cls \in Classes, kw \in KwargsInputs }
        \cup { GenericNoCurve, GenericEmptyCurve, GenericWithCurve }

\* heights in whole millimetres
HeightInputs == {None, Some(900), Some(1000), Some(1500), Some(3000)}

WeightInputs == {None, Some(12)}

\* desired K in tenths of a millimetre
KInputs == {None, Some(20), Some(30), Some(35), Some(45), Some(60), Some(65), Some(100)}

DoorInputs ==
    { DoorSpec(t, h, w, k) :
        t \in ThicknessInputs, h \in HeightInputs, w \in WeightInputs, k \in KInputs }

\* table keys, whole millimetres
TableThicknessInputs == {14, 15, 18, 19, 20, 21, 35, 36}
TableKInputs == {2, 3, 4, 5, 6, 7, 9, 10}

----------------------------------------------------------------------------
(* The import of src/src/hinges.py and the registry operations *)

NoCall == [op |-> "none"]

Idle ==
    /\ series = None
    /\ door = None
    /\ result = None
    /\ prev = None
    /\ runs = 0
    /\ fnret = NoCall

\* line 14: HINGE_SERIES_REGISTRY = {}
Init ==
    /\ registry = <<>>
    /\ pc = "register_100"
    /\ nextId = 0
    /\ ret = NoCall
    /\ Idle

\* line 251
ImportRegister100 ==
    /\ pc = "register_100"
    /\ registry' = register_hinge_series(registry, Key100, "SaliceSilentia100Series")
    /\ pc' = "register_200_94"
    /\ UNCHANGED <<nextId, ret, series, door, result, prev, runs, fnret>>

\* line 252
ImportRegister200_94 ==
    /\ pc = "register_200_94"
    /\ registry' = register_hinge_series(registry, Key200_94, "SaliceSilentia200_94Series")
    /\ pc' = "ready"
    /\ UNCHANGED <<nextId, ret, series, door, result, prev, runs, fnret>>

\* a caller's register_hinge_series(key, cls)
Register(key, cls) ==
    /\ pc = "ready"
    /\ Len(register_hinge_series(registry, key, cls)) <= MaxRegistry
    /\ registry' = register_hinge_series(registry, key, cls)
    /\ ret' = [op |-> "register", key |-> key, cls |-> cls]
    /\ UNCHANGED <<pc, nextId, series, door, result, prev, runs, fnret>>

\* a caller's get_hinge_series(key, **kwargs)
GetHingeSeries(key, kwargs) ==
    LET out == get_hinge_series(registry, key, kwargs, nextId)
    IN  /\ pc = "ready"
        /\ nextId + out.constructed <= MaxInstances
        /\ ret' = [op |-> "get", key |-> key, kwargs |-> kwargs, out |-> out]
        /\ nextId' = nextId + out.constructed
        /\ UNCHANGED <<registry, pc, series, door, result, prev, runs, fnret>>

\* a caller's select_hinge_series_for_thickness(thickness_mm, angle)
SelectHingeSeries(thickness_mm, angle) ==
    LET out == select_hinge_series_for_thickness(registry, thickness_mm, angle, nextId)
    IN  /\ pc = "ready"
        /\ nextId + out.constructed <= MaxInstances
        /\ ret' = [op |-> "select", thickness_mm |-> thickness_mm,
                   angle |-> angle, out |-> out]
        /\ nextId' = nextId + out.constructed
        /\ UNCHANGED <<registry, pc, series, door, result, prev, runs, fnret>>

Next ==
    \/ ImportRegister100
    \/ ImportRegister200_94
    \/ \E key \in RegisterKeys, cls \in Classes : Register(key, cls)
    \/ \E key \in GetKeys, kwargs \in KwargsInputs : GetHingeSeries(key, kwargs)
    \/ \E t \in SelectThicknessInputs, angle \in AngleInputs : SelectHingeSeries(t, angle)

Spec == Init /\ [][Next]_vars

\* the registry as the import leaves it
ImportedRegistry ==
    register_hinge_series(
        register_hinge_series(<<>>, Key100, "SaliceSilentia100Series"),
        Key200_94, "SaliceSilentia200_94Series")

Imported ==
    /\ registry = ImportedRegistry
    /\ pc = "ready"
    /\ nextId = 0
    /\ ret = NoCall

----------------------------------------------------------------------------
(* calculate_boring applied, once or repeatedly, to one series and one door *)

InitCalc ==
    /\ Imported
    /\ series \in {Some(s) : s \in SeriesInputs}
    /\ door \in {Some(d) : d \in DoorInputs}
    /\ result = None
    /\ prev = None
    /\ runs = 0
    /\ fnret = NoCall

CalculateBoring ==
    LET out == calculate_boring(Val(series), Val(door))
    IN  /\ runs < MaxRuns
        /\ result' = Some([raised |-> out.raised, value |-> out.value,
                           entry |-> Val(door)])
        /\ prev' = result
        /\ door' = Some(out.door)
        /\ runs' = runs + 1
        /\ UNCHANGED <<registry, pc, nextId, ret, series, fnret>>

NextCalc == CalculateBoring

SpecCalc == InitCalc /\ [][NextCalc]_vars

----------------------------------------------------------------------------
(* The methods of a series and of its tables, called on their own *)

InitFn ==
    /\ Imported
    /\ series \in {Some(s) : s \in SeriesInputs}
    /\ door = None
    /\ result = None
    /\ prev = None
    /\ runs = 0
    /\ fnret = NoCall

CallSupportsThickness(t) ==
    /\ fnret' = [op |-> "supports_thickness", thickness_mm |-> t,
                 value |-> supports_thickness(Val(series), t)]
    /\ UNCHANGED <<registry, pc, nextId, ret, series, door, result, prev, runs>>

CallRecommendHingeCount(h, w) ==
    /\ fnret' = [op |-> "recommend_hinge_count", height_mm |-> h, weight_kg |-> w,
                 out |-> recommend_hinge_count(Val(series), h, w)]
    /\ UNCHANGED <<registry, pc, nextId, ret, series, door, result, prev, runs>>

CallGetA(t, k) ==
    /\ fnret' = [op |-> "get_a", thickness_mm |-> t, k_mm |-> k,
                 value |-> get_a(Val(series).tables, t, k)]
    /\ UNCHANGED <<registry, pc, nextId, ret, series, door, result, prev, runs>>

CallGetL(t, k) ==
    /\ fnret' = [op |-> "get_l", thickness_mm |-> t, k_mm |-> k,
                 value |-> get_l(Val(series).tables, t, k)]
    /\ UNCHANGED <<registry, pc, nextId, ret, series, door, result, prev, runs>>

CallGetC(t, k) ==
    /\ fnret' = [op |-> "get_c", thickness_mm |-> t, k_mm |-> k,
                 value |-> get_c(Val(series).tables, t, k)]
    /\ UNCHANGED <<registry, pc, nextId, ret, series, door, result, prev, runs>>

NextFn ==
    \/ \E t \in ThicknessInputs : CallSupportsThickness(t)
    \/ \E h \in HeightInputs, w \in WeightInputs : CallRecommendHingeCount(h, w)
    \/ \E t \in TableThicknessInputs, k \in TableKInputs : CallGetA(t, k)
    \/ \E t \in TableThicknessInputs, k \in TableKInputs : CallGetL(t, k)
    \/ \E t \in TableThicknessInputs, k \in TableKInputs : CallGetC(t, k)

SpecFn == InitFn /\ [][NextFn]_vars

----------------------------------------------------------------------------
(* Claims *)

Called == ~IsNone(result)

\* C1: calculate_boring never raises: whatever the series (with or without a
\* height-count curve) and the door, every call returns a BoringResult.
C1_NeverRaises ==
    Called => /\ IsNone(Val(result).raised)
              /\ ~IsNone(Val(result).value)

\* C2: supports_thickness(t) is true iff min <= t and (max is unset or t <= max),
\* and for the 100-series 14.0mm is supported, 13.9mm is not, 20.0mm is and
\* 20.1mm is not.
C2_SupportsThickness ==
    fnret.op = "supports_thickness" =>
        LET s == Val(series)
            t == fnret.thickness_mm
        IN  /\ fnret.value <=>
                  /\ s.min_door_thickness_mm <= t
                  /\ (IsNone(s.max_door_thickness_mm)
                      \/ t <= Val(s.max_door_thickness_mm))
            /\ s.code = "salice_silentia_100" =>
                  /\ t = 140 => fnret.value
                  /\ t = 139 => ~fnret.value
                  /\ t = 200 => fnret.value
                  /\ t = 201 => ~fnret.value

\* C3: once the import has run, get_hinge_series succeeds for the canonical
\* codes and for the short aliases, and returns the series of that code.
C3_CanonicalAndAlias ==
    (ret.op = "get" /\ registry = ImportedRegistry) =>
        /\ ret.key \in {KeyCanonical100, Key100} =>
              /\ IsNone(ret.out.raised)
              /\ Val(ret.out.value).obj.code = "salice_silentia_100"
        /\ ret.key \in {KeyCanonical200_94, Key200_94} =>
              /\ IsNone(ret.out.raised)
              /\ Val(ret.out.value).obj.code = "salice_silentia_200_94"

\* what lower() and strip() give, stated on the outcome: k has no upper-case
\* letter and no white space at either end, and the lower-cased key is k with
\* white space around it
IsNormalFormOf(k, key) ==
    /\ \A i \in DOMAIN k : \A j \in DOMAIN UpperLetters : k[i] # UpperLetters[j]
    /\ k # <<>> => (k[1] \notin Whitespace /\ k[Len(k)] \notin Whitespace)
    /\ \E a \in 0..Len(key) :
          /\ a + Len(k) <= Len(key)
          /\ \A i \in 1..Len(key) :
                IF i > a /\ i <= a + Len(k)
                THEN \/ k[i - a] = key[i]
                     \/ \E j \in DOMAIN UpperLetters :
                           key[i] = UpperLetters[j] /\ k[i - a] = LowerLetters[j]
                ELSE key[i] \in Whitespace

\* the keys of the registry that are a normal form of `key` (at most one)
RegisteredFormsOf(reg, key) ==
    {i \in DOMAIN reg : IsNormalFormOf(reg[i].key, key)}

C4_GetOutcome ==
    ret.op = "get" =>
        LET hits == RegisteredFormsOf(registry, ret.key)
            out == ret.out
        IN  IF hits = {}
            THEN /\ ~IsNone(out.raised)
                 /\ IsNone(out.value)
                 /\ out.constructed = 0
                 /\ Val(out.raised).msg = "unknown_hinge_series"
                 /\ IsNormalFormOf(Val(out.raised).detail.key, ret.key)
                 /\ Val(out.raised).detail.available
                       = [i \in DOMAIN registry |-> registry[i].key]
            ELSE /\ IsNone(out.raised)
                 /\ out.constructed = 1
                 /\ \E i \in hits :
                       Val(out.value).obj = Construct(registry[i].cls, ret.kwargs)
                 /\ Val(out.value).id = nextId - 1

C4_GetStep ==
    (ret'.op = "get" /\ ret' # ret) =>
        /\ registry' = registry
        /\ IF IsNone(ret'.out.raised)
           THEN nextId' = nextId + 1 /\ Val(ret'.out.value).id = nextId
           ELSE nextId' = nextId

\* C4: get_hinge_series lower-cases and trims the key; an unregistered key
\* fails with an error naming the key and listing the registered keys,
\* constructs nothing and leaves the registry as it was; a registered key gives
\* a fresh instance of the registered class.
C4_GetHingeSeries == []C4_GetOutcome /\ [][C4_GetStep]_vars

\* C4 witness: a key that needed normalising resolved to a fresh instance, after
\* an earlier construction
C4_Witness ==
    /\ ret.op = "get"
    /\ ret.key # NormalizeKey(ret.key)
    /\ IsNone(ret.out.raised)
    /\ Val(ret.out.value).id > 0

\* the midpoint of a series' thickness range as the claims state it, doubled:
\* min if max is unset, else the mean of the bounds
Mid2(s) ==
    IF IsNone(s.max_door_thickness_mm)
    THEN 2 * s.min_door_thickness_mm
    ELSE s.min_door_thickness_mm + Val(s.max_door_thickness_mm)

\* the series registry entry i constructs passes the two filters
Survives(reg, i, thickness_mm, angle) ==
    LET s == Construct(reg[i].cls, NoKwargs)
    IN  /\ s.min_door_thickness_mm <= thickness_mm
        /\ (IsNone(s.max_door_thickness_mm)
            \/ thickness_mm <= Val(s.max_door_thickness_mm))
        /\ (IsNone(angle) \/ s.opening_angle_deg >= Val(angle))

\* C5: the selection returns a registered series that supports t and meets the
\* angle, of least |midpoint - t| among those, the first such in registry
\* order; with the registry as imported, t = 18 and no angle select the
\* 100-series, whose midpoint is 17.0, the 200-94 series (midpoint 27.0) being
\* filtered out.
C5_SelectClosest ==
    ret.op = "select" =>
        LET t == ret.thickness_mm
            angle == ret.angle
            out == ret.out
            first == nextId - Len(registry)
        IN  /\ IsNone(out.raised) =>
                \E i \in DOMAIN registry :
                    /\ Val(out.value).id = first + i - 1
                    /\ Val(out.value).obj = Construct(registry[i].cls, NoKwargs)
                    /\ Survives(registry, i, t, angle)
                    /\ \A j \in DOMAIN registry :
                          Survives(registry, j, t, angle) =>
                             LET di == Abs(Mid2(Construct(registry[i].cls, NoKwargs)) - 2 * t)
                                 dj == Abs(Mid2(Construct(registry[j].cls, NoKwargs)) - 2 * t)
                             IN  /\ di <= dj
                                 /\ j < i => di < dj
            /\ (registry = ImportedRegistry /\ t = 180 /\ IsNone(angle)) =>
                /\ IsNone(out.raised)
                /\ Val(out.value).obj.code = "salice_silentia_100"
                /\ Mid2(Val(out.value).obj) = 2 * 170
                /\ ~Survives(registry, 2, t, angle)
                /\ Mid2(Construct(registry[2].cls, NoKwargs)) = 2 * 270

\* C6: the selection fails with "no series registered" iff the registry is
\* empty, with "no match" naming the thickness and the angle iff the registry
\* is not empty and no registered series passes both filters, and returns a
\* series in every other case.
C6_LastSelect ==
    ret.op = "select" =>
        LET t == ret.thickness_mm
            angle == ret.angle
            out == ret.out
            failed(msg) == ~IsNone(out.raised) /\ Val(out.raised).msg = msg
            nobody == \A i \in DOMAIN registry : ~Survives(registry, i, t, angle)
        IN  /\ failed("no_hinge_series_registered") <=> registry = <<>>
            /\ failed("no_series_supports") <=> (registry # <<>> /\ nobody)
            /\ failed("no_series_supports") =>
                  /\ Val(out.raised).detail.thickness_mm = t
                  /\ Val(out.raised).detail.angle = angle
            /\ (registry # <<>> /\ ~nobody) =>
                  (IsNone(out.raised) /\ ~IsNone(out.value))
            /\ IsNone(out.raised) <=> ~IsNone(out.value)

\* the same on the registry of every state, the empty one of line 14 included,
\* where no caller can run the selection yet
C6_OnCurrentRegistry ==
    \A t \in SelectThicknessInputs, angle \in AngleInputs :
        LET out == select_hinge_series_for_thickness(registry, t, angle, nextId)
            failed(msg) == ~IsNone(out.raised) /\ Val(out.raised).msg = msg
        IN  /\ failed("no_hinge_series_registered") <=> registry = <<>>
            /\ failed("no_series_supports") <=>
                  /\ registry # <<>>
                  /\ \A i \in DOMAIN registry : ~Survives(registry, i, t, angle)

C6_SelectErrors == C6_LastSelect /\ C6_OnCurrentRegistry

\* C6 witness: a thickness some registered series supports, refused because of
\* the angle asked for
C6_Witness ==
    /\ ret.op = "select"
    /\ ~IsNone(ret.out.raised)
    /\ Val(ret.out.raised).msg = "no_series_supports"
    /\ ~IsNone(ret.angle)
    /\ \E i \in DOMAIN registry : Survives(registry, i, ret.thickness_mm, None)

\* n is x (tenths) rounded to the nearest whole number, halves to the even one
IsRounded(n, x) ==
    \/ Abs(10 * n - x) < 5
    \/ (Abs(10 * n - x) = 5 /\ n % 2 = 0)

\* the warnings of a result that report a missing table entry
TableWarnings(r) ==
    {i \in DOMAIN r.warnings : r.warnings[i].kind = "no_table_entry"}

InTable(table, t, k) == t \in DOMAIN table /\ k \in DOMAIN table[t]

\* C7: when the rounded (T, K) pair has no entry in the A table or in the L
\* table, the missing values are absent in the result (C as well whenever A is),
\* and exactly one warning names the rounded pair; when both are present the
\* values are the table's and there is no such warning.
C7_MissingEntry ==
    (Called /\ ~IsNone(Val(result).value)) =>
        LET r == Val(Val(result).value)
            s == Val(series)
            T == CHOOSE n \in 0..100 : IsRounded(n, r.thickness_mm)
            K == CHOOSE n \in 0..100 : IsRounded(n, r.k_mm)
            hasA == InTable(s.tables.a_table, T, K)
            hasL == InTable(s.tables.l_table, T, K)
        IN  /\ IF hasA
               THEN /\ r.a_mm = Some(s.tables.a_table[T][K])
                    /\ ~IsNone(r.c_mm)
               ELSE IsNone(r.a_mm) /\ IsNone(r.c_mm)
            /\ IF hasL
               THEN r.l_mm = Some(s.tables.l_table[T][K])
               ELSE IsNone(r.l_mm)
            /\ IF hasA /\ hasL
               THEN TableWarnings(r) = {}
               ELSE /\ Cardinality(TableWarnings(r)) = 1
                    /\ \A i \in TableWarnings(r) : r.warnings[i].nums = <<T, K>>

\* C7 witness: A is in the table and L is not, at a thickness that rounds on a half
C7_Witness ==
    /\ Called
    /\ ~IsNone(Val(result).value)
    /\ ~IsNone(Val(Val(result).value).a_mm)
    /\ IsNone(Val(Val(result).value).l_mm)
    /\ Val(Val(result).value).thickness_mm % 10 = 5

\* C8: a second calculate_boring on the same series object and the same door
\* object gives what the first gave, field for field and warning for warning,
\* also when the first call back-filled door.height_mm.
C8_SameTwice ==
    runs >= 2 =>
        /\ Val(result).raised = Val(prev).raised
        /\ Val(result).value = Val(prev).value

\* C8 witness: the first of two calls found the height unset and returned a result
C8_Witness ==
    /\ runs >= 2
    /\ IsNone(Val(prev).entry.height_mm)
    /\ ~IsNone(Val(prev).value)
    /\ ~IsNone(Val(result).entry.height_mm)

\* C9: recommend_hinge_count(height, weight) is absent when the series has no
\* curve; otherwise it is the count of the first entry whose threshold is >=
\* height, or the last entry's count when the height is above every threshold,
\* whatever the weight; the 100-series curve gives 2, 2, 3 and 5 for the heights
\* 900, 1000, 1500 and 3000.
C9_RecommendHingeCount ==
    (fnret.op = "recommend_hinge_count" /\ ~IsNone(fnret.height_mm)) =>
        LET s == Val(series)
            h == Val(fnret.height_mm)
            out == fnret.out
            hasCurve == /\ ~IsNone(s.hinge_count_by_height)
                        /\ Val(s.hinge_count_by_height) # <<>>
            curve == Val(s.hinge_count_by_height)
            reach == {i \in DOMAIN curve : curve[i][1] >= h}
        IN  /\ IsNone(out.raised)
            /\ ~hasCurve => IsNone(out.value)
            /\ hasCurve =>
                  /\ ~IsNone(out.value)
                  /\ reach = {} => Val(out.value) = curve[Len(curve)][2]
                  /\ \A i \in reach :
                        (\A j \in reach : i <= j) => Val(out.value) = curve[i][2]
            /\ \A w \in WeightInputs :
                  recommend_hinge_count(s, fnret.height_mm, w) = out
            /\ (hasCurve /\ s.code = "salice_silentia_100"
                         /\ curve = << <<1000, 2>>, <<1500, 3>>, <<2200, 4>>, <<2800, 5>> >>) =>
                  /\ h = 900 => out.value = Some(2)
                  /\ h = 1000 => out.value = Some(2)
                  /\ h = 1500 => out.value = Some(3)
                  /\ h = 3000 => out.value = Some(5)

\* C9 witness: a height equal to a threshold of the 100-series curve, with a weight
C9_Witness ==
    /\ fnret.op = "recommend_hinge_count"
    /\ Val(series).code = "salice_silentia_100"
    /\ fnret.height_mm = Some(1500)
    /\ ~IsNone(fnret.weight_kg)
    /\ fnret.out.value = Some(3)

\* C10: get_c is defined iff get_a is defined for the same pair, and is then
\* c_offset + k + A; the 100-series tables give A = 1.3 and C = 25.8 at T = 18,
\* K = 4.
C10_GetC ==
    /\ fnret.op = "get_c" =>
          LET tb == Val(series).tables
              t == fnret.thickness_mm
              k == fnret.k_mm
          IN  /\ ~IsNone(fnret.value) <=> InTable(tb.a_table, t, k)
              /\ ~IsNone(fnret.value) <=> ~IsNone(get_a(tb, t, k))
              /\ InTable(tb.a_table, t, k) =>
                    Val(fnret.value) = tb.c_offset + 10 * k + tb.a_table[t][k]
              /\ (Val(series).code = "salice_silentia_100" /\ tb.c_offset = 205
                    /\ t = 18 /\ k = 4 /\ InTable(tb.a_table, t, k)
                    /\ tb.a_table[t][k] = 13) => fnret.value = Some(258)
    /\ (fnret.op = "get_a" /\ Val(series) = Construct("SaliceSilentia100Series", NoKwargs)
          /\ fnret.thickness_mm = 18 /\ fnret.k_mm = 4) => fnret.value = Some(13)

\* C10 witness: get_c on the 100-series' own tables at T = 18, K = 4
C10_Witness ==
    /\ fnret.op = "get_c"
    /\ Val(series) = Construct("SaliceSilentia100Series", NoKwargs)
    /\ fnret.thickness_mm = 18
    /\ fnret.k_mm = 4
    /\ fnret.value = Some(258)

\* the warnings of a list that are of one kind
WarningsOfKind(ws, kind) == {i \in DOMAIN ws : ws[i].kind = kind}

\* the K step on a series and the door as a call found it: the K resolved and
\* the warnings it appended
C11_KStep(s, e, k_mm, ws) ==
    /\ s.min_k_mm <= k_mm /\ k_mm <= s.max_k_mm
    /\ IF IsNone(e.desired_k_mm)
       THEN /\ k_mm = s.min_k_mm
            /\ Cardinality(WarningsOfKind(ws, "default_k_used")) = 1
            /\ \A i \in WarningsOfKind(ws, "default_k_used") : ws[i].nums = <<k_mm>>
            /\ WarningsOfKind(ws, "k_clamped") = {}
       ELSE LET want == Val(e.desired_k_mm)
            IN  /\ want < s.min_k_mm => k_mm = s.min_k_mm
                /\ want > s.max_k_mm => k_mm = s.max_k_mm
                /\ (s.min_k_mm <= want /\ want <= s.max_k_mm) => k_mm = want
                /\ WarningsOfKind(ws, "default_k_used") = {}
                /\ IF k_mm # want
                   THEN /\ Cardinality(WarningsOfKind(ws, "k_clamped")) = 1
                        /\ \A i \in WarningsOfKind(ws, "k_clamped") :
                              ws[i].nums = <<want, s.min_k_mm, s.max_k_mm, k_mm>>
                   ELSE WarningsOfKind(ws, "k_clamped") = {}

\* C11: the resolved k_mm is default_k() = min_k_mm with a default-used warning
\* when desired_k_mm is unset, and clamp_k(desired_k_mm) otherwise with a clamp
\* warning iff the value changed; either way k_mm lies in [min_k_mm, max_k_mm]
\* and the A/L/C lookup is made with it.
C11_ResolvedK ==
    Called =>
        LET s == Val(series)
            e == Val(result).entry
            step == ResolveK(s, e)
        IN  /\ C11_KStep(s, e, step.k_mm, step.warnings)
            /\ ~IsNone(Val(result).value) =>
                  LET r == Val(Val(result).value)
                      T == CHOOSE n \in 0..100 : IsRounded(n, r.thickness_mm)
                      K == CHOOSE n \in 0..100 : IsRounded(n, r.k_mm)
                  IN  /\ C11_KStep(s, e, r.k_mm, r.warnings)
                      /\ r.a_mm = IF InTable(s.tables.a_table, T, K)
                                  THEN Some(s.tables.a_table[T][K]) ELSE None
                      /\ r.l_mm = IF InTable(s.tables.l_table, T, K)
                                  THEN Some(s.tables.l_table[T][K]) ELSE None
                      /\ r.c_mm = IF InTable(s.tables.a_table, T, K)
                                  THEN Some(s.tables.c_offset + 10 * K + s.tables.a_table[T][K])
                                  ELSE None

\* C11 witness: a desired K below the range, clamped up, whose table cell exists
C11_Witness ==
    /\ Called
    /\ ~IsNone(Val(result).value)
    /\ ~IsNone(Val(result).entry.desired_k_mm)
    /\ Val(Val(result).entry.desired_k_mm) < Val(series).min_k_mm
    /\ Val(Val(result).value).k_mm = Val(series).min_k_mm
    /\ ~IsNone(Val(Val(result).value).a_mm)

\* the door after a call differs from the door before it in height_mm at most
SameButHeight(d0, d1) ==
    /\ d1.thickness_mm = d0.thickness_mm
    /\ d1.weight_kg = d0.weight_kg
    /\ d1.desired_k_mm = d0.desired_k_mm

\* what C12 says of one call: e the door on entry, d the door after it
C12_Backfill ==
    Called =>
        LET s == Val(series)
            e == Val(result).entry
            d == Val(door)
        IN  /\ IsNone(Val(result).raised)
            /\ ~IsNone(Val(result).value)
            /\ SameButHeight(e, d)
            /\ ~IsNone(Val(Val(result).value).height_mm)
            /\ Val(Val(result).value).height_mm = d.height_mm
            /\ IF IsNone(e.height_mm)
               THEN /\ ~IsNone(s.hinge_count_by_height)
                    /\ \E i \in DOMAIN Val(s.hinge_count_by_height) :
                          d.height_mm = Some(Val(s.hinge_count_by_height)[i][1])
                    /\ \A i \in DOMAIN Val(s.hinge_count_by_height) :
                          Val(d.height_mm) <= Val(s.hinge_count_by_height)[i][1]
                    /\ Val(Val(result).value).recommended_hinge_count
                          = recommend_hinge_count(s, d.height_mm, d.weight_kg).value
               ELSE d.height_mm = e.height_mm

\* C12: a call that finds door.height_mm unset sets it in place to the least
\* threshold of the series' curve, reports that height and counts hinges from
\* it; a call that finds it set leaves it and echoes it; either way
\* result.height_mm is not null and nothing else of the door or of the series
\* changes.
C12_HeightBackfill == []C12_Backfill /\ [][series' = series]_vars

\* the classes the registry holds for key k
ClassesOf(reg, k) == {reg[i].cls : i \in {j \in DOMAIN reg : reg[j].key = k}}

KeysOf(reg) == {reg[i].key : i \in DOMAIN reg}

\* every key is held once, in lower case and trimmed, with one class
C13_OneClassPerKey ==
    /\ \A i, j \in DOMAIN registry : registry[i].key = registry[j].key => i = j
    /\ \A k \in KeysOf(registry) :
          /\ IsNormalFormOf(k, k)
          /\ Cardinality(ClassesOf(registry, k)) = 1

\* the register call a step makes, if it makes one: the two of the import
\* (lines 251 and 252) and a caller's
RegisterCallOfStep ==
    IF pc = "register_100" /\ pc' # pc
    THEN Some([key |-> Key100, cls |-> "SaliceSilentia100Series"])
    ELSE IF pc = "register_200_94" /\ pc' # pc
    THEN Some([key |-> Key200_94, cls |-> "SaliceSilentia200_94Series"])
    ELSE IF ret'.op = "register" /\ ret' # ret
    THEN Some([key |-> ret'.key, cls |-> ret'.cls])
    ELSE None

\* a step keeps every key; a register call maps the normal form of its key to
\* its class; the class of a key changes only by a register call on that key
C13_RegisterStep ==
    LET call == RegisterCallOfStep
    IN  /\ KeysOf(registry) \subseteq KeysOf(registry')
        /\ ~IsNone(call) =>
              \E k \in KeysOf(registry') :
                  /\ IsNormalFormOf(k, Val(call).key)
                  /\ ClassesOf(registry', k) = {Val(call).cls}
                  /\ KeysOf(registry') = KeysOf(registry) \cup {k}
        /\ \A k \in KeysOf(registry) :
              ClassesOf(registry', k) # ClassesOf(registry, k) =>
                  /\ ~IsNone(call)
                  /\ IsNormalFormOf(k, Val(call).key)
        /\ IsNone(call) => registry' = registry

\* C13: after any register calls each lower-cased, trimmed key maps to exactly
\* one class, the one of the latest register call whose key normalizes to it;
\* registering a key changes no other key's class, and no operation removes a
\* key.
C13_LastWriterWins == []C13_OneClassPerKey /\ [][C13_RegisterStep]_vars

\* C13 witness: the alias "100" overwritten by a caller's padded key, with a
\* third key registered besides
C13_Witness ==
    /\ ret.op = "register"
    /\ ClassesOf(registry, Key100) = {"SaliceSilentia200_94Series"}
    /\ ClassesOf(registry, Key200_94) = {"SaliceSilentia200_94Series"}
    /\ Len(registry) = 3

====
